---- MODULE Spec2Model ----
(***************************************************************************)
(* A model of time_to_merge.py: the cache store, the paginated Gerrit      *)
(* fetch, the patch normalisers, the derivation of points, the core        *)
(* reviewer activity series and the module's main sequence, run several    *)
(* times in a row against one cache directory.                             *)
(***************************************************************************)
EXTENDS Integers, Sequences, FiniteSets, TLC

VARIABLES
    cacheDir,   \* does the directory 'cache' exist
    cache,      \* the files of 'cache': file name -> stored list of patches
    writer,     \* for each file of 'cache', the query of the run that wrote it
    tz,         \* the machine's offset from UTC, in seconds (date.fromtimestamp)
    runs,       \* number of invocations of the script started so far
    pc,         \* position of the current invocation in the main sequence
    args,       \* the parsed command line
    query,      \* the module-level query string
    hit,        \* whether the cache lookup found the file
    data,       \* the module-level data (<<>> stands for None as well as [])
    fdata,      \* get_json_data_from_query: local data
    start,      \* get_json_data_from_query: local start
    nPages,     \* the number of pages the review service holds for this query
    served,     \* the pages the service has answered with so far
    points,     \* the module-level points
    charts,     \* the chart functions called so far, in order
    exitCode,   \* -1 while running, else the process's exit status
    lookups,    \* cache lookups of this invocation
    writes,     \* cache writes of this invocation
    out         \* locals and results of a function studied on its own

vars == <<cacheDir, cache, writer, tz, runs, pc, args, query, hit, data, fdata,
          start, nPages, served, points, charts, exitCode, lookups, writes,
          out>>

----------------------------------------------------------------------------
(* Bounds of the model *)

MaxRuns == 2        \* invocations of the script in a row
MaxPages == 2       \* pages the review service holds for one query
MaxRecords == 2     \* patches the review service holds for one query, over runs
MaxFetched == 4     \* the same, where one fetch is studied on its own
MaxApprovals == 2   \* approvals of the current patch set of one change
MaxBatch == 2       \* patches of a batch handed to one function

(* Program constants *)

DaySecs == 86400

HalfDay == DaySecs \div 2

TzOffsets == {0, HalfDay}

----------------------------------------------------------------------------
(* Sequences *)

Range(s) == {s[i] : i \in 1..Len(s)}

SeqsUpTo(S, n) == UNION {[1..m -> S] : m \in 0..n}

\* the number of indices of s holding x
Occurrences(s, x) == Cardinality({i \in 1..Len(s) : s[i] = x})

SameBag(s, t) ==
    /\ Len(s) = Len(t)
    /\ \A x \in Range(s) \cup Range(t) : Occurrences(s, x) = Occurrences(t, x)

Max(a, b) == IF a >= b THEN a ELSE b

----------------------------------------------------------------------------
(* Strings are sequences of characters, so that replace() has work to do *)

\* str.replace('/', '_')
Replace(s, old, new) == [i \in 1..Len(s) |-> IF s[i] = old THEN new ELSE s[i]]

_get_file_from_query(q) == Replace(q, "/", "_")

RECURSIVE OwnerClauses(_)
\* the loop of get_list_of_owners: 'owner:%s OR ' for each person
OwnerClauses(people) ==
    IF people = <<>> THEN <<>>
    ELSE <<"owner:", Head(people), " OR ">> \o OwnerClauses(Tail(people))

\* people_query[:-4] drops the last ' OR '
get_list_of_owners(people) ==
    LET people_query == <<"\\(">> \o OwnerClauses(people)
    IN SubSeq(people_query, 1, Len(people_query) - 1) \o <<"\\)">>

\* the query of the main sequence; an absent option is the empty set
BuildQuery(a) ==
    <<"status:merged branch:master project:">> \o a.project \o <<" ">>
      \o (IF a.owner # <<>> THEN get_list_of_owners(a.owner) ELSE <<>>)
      \o (IF a.newer_than # {}
          THEN <<" -- -age:", ToString(CHOOSE n \in a.newer_than : TRUE), "d">>
          ELSE <<>>)

Projects == { <<"a", "/", "b">>, <<"a", "_", "b">>, <<"c">> }

\* the command lines the script is run with
Invocations ==
    {[project |-> p, owner |-> <<>>, newer_than |-> {}] : p \in Projects}
      \cup {[project |-> <<"c">>, owner |-> <<"bob">>, newer_than |-> {7}]}

----------------------------------------------------------------------------
(* Review-service records.  An optional field of the JSON object is a field *)
(* the record has or has not; a KeyError is a field outside DOMAIN.        *)

Approval(t, v, g, u) ==
    [type |-> t, value |-> v, grantedOn |-> g, by |-> [username |-> u]]

PatchSet(ins, del) == [sizeInsertions |-> ins, sizeDeletions |-> del]

PatchSetWith(ins, del, apps) ==
    [sizeInsertions |-> ins, sizeDeletions |-> del, approvals |-> apps]

Anonymous(c, u, ps) == [createdOn |-> c, lastUpdated |-> u, currentPatchSet |-> ps]

Owned(c, u, ps, o) ==
    [createdOn |-> c, lastUpdated |-> u, currentPatchSet |-> ps,
     owner |-> [username |-> o]]

HasApprovals(patch) == "approvals" \in DOMAIN patch.currentPatchSet

HasOwner(patch) == "owner" \in DOMAIN patch

----------------------------------------------------------------------------
(* Patch normalisers *)

\* datetime.date.fromtimestamp(ts), as a day number: the local calendar day
Date(ts, offset) == (ts + offset) \div DaySecs

\* the grant of the first approval, whatever its type
FirstGranted(approvals, default) ==
    IF approvals = <<>> THEN default ELSE Head(approvals).grantedOn

RECURSIVE FirstSubm(_, _)
\* next((approval['grantedOn'] for approval in approvals
\*       if approval['type'] == 'SUBM'), default)
FirstSubm(approvals, default) ==
    IF approvals = <<>> THEN default
    ELSE IF Head(approvals).type = "SUBM" THEN Head(approvals).grantedOn
    ELSE FirstSubm(Tail(approvals), default)

get_submission_timestamp(patch) ==
    IF ~HasApprovals(patch) THEN patch.lastUpdated
    ELSE FirstSubm(patch.currentPatchSet.approvals, patch.lastUpdated)

get_loc(patch) ==
    Max(0, patch.currentPatchSet.sizeInsertions +
           patch.currentPatchSet.sizeDeletions)

\* the inner get_patch_author: None is the empty set, a name is a singleton
get_patch_author(patch) ==
    IF HasOwner(patch) THEN {patch.owner.username} ELSE {}

----------------------------------------------------------------------------
(* sorted(data, key=lambda x: x['createdOn']): a stable sort *)

RECURSIVE InsertByCreatedOn(_, _)
InsertByCreatedOn(sorted, x) ==
    IF sorted = <<>> THEN <<x>>
    ELSE IF sorted[Len(sorted)].createdOn <= x.createdOn THEN Append(sorted, x)
    ELSE Append(InsertByCreatedOn(SubSeq(sorted, 1, Len(sorted) - 1), x),
                sorted[Len(sorted)])

RECURSIVE SortAcc(_, _)
SortAcc(done, rest) ==
    IF rest = <<>> THEN done
    ELSE SortAcc(InsertByCreatedOn(done, Head(rest)), Tail(rest))

\* no sort at all
Unsorted(s) == s

SortedByCreatedOn(s) == SortAcc(<<>>, s)

----------------------------------------------------------------------------
(* Point derivation *)

PointOf(patch, origin, offset) ==
    [date |-> Date(patch.createdOn, offset) - origin,
     days_to_merge |-> Date(get_submission_timestamp(patch), offset)
                       - Date(patch.createdOn, offset),
     loc |-> get_loc(patch),
     author |-> IF HasOwner(patch) THEN patch.owner.username ELSE "None"]

\* y_value >= 0 in place of y_value > 0
AcceptedSameDay(patch, offset) ==
    /\ Date(get_submission_timestamp(patch), offset)
         - Date(patch.createdOn, offset) >= 0
    /\ get_patch_author(patch) # {}

\* the condition under which the loop appends the point
Accepted(patch, offset) ==
    /\ Date(get_submission_timestamp(patch), offset)
         - Date(patch.createdOn, offset) > 0
    /\ get_patch_author(patch) # {}

RECURSIVE PointsLoop(_, _, _)
PointsLoop(rest, origin, offset) ==
    IF rest = <<>> THEN <<>>
    ELSE LET patch == Head(rest)
             tail == PointsLoop(Tail(rest), origin, offset)
         IN IF Accepted(patch, offset)
            THEN <<PointOf(patch, origin, offset)>> \o tail
            ELSE tail

\* data is never empty where the main sequence calls this (data[0])
get_points_from_data(d, offset) ==
    PointsLoop(d, Date(d[1].createdOn, offset), offset)

----------------------------------------------------------------------------
(* The review service.  What the service holds for a query is drawn, record *)
(* by record, from a pool of merged changes.                                *)

\* merged two days after creation, with submission metadata
PatchWithSubm ==
    Owned(3 * DaySecs, 6 * DaySecs,
          PatchSetWith(10, 5, << Approval("Code-Review", "2", 4 * DaySecs, "carol"),
                                 Approval("SUBM", "1", 5 * DaySecs, "carol") >>),
          "alice")

\* merged the next day, no approvals data
PatchNoApprovals ==
    Owned(DaySecs + HalfDay, 2 * DaySecs + HalfDay, PatchSet(3, 0), "bob")

\* last updated half a day after creation: the same day or the next one
PatchHalfDay == Owned(DaySecs, DaySecs + HalfDay, PatchSet(1, 1), "bob")

\* no owner username
PatchNoOwner == Anonymous(2 * DaySecs, 4 * DaySecs, PatchSet(7, 2))

\* the pool where one fetch is studied on its own
MainPatches == {PatchWithSubm, PatchNoApprovals, PatchHalfDay, PatchNoOwner}

\* the pool where the script is run several times in a row
RunPatches == {PatchWithSubm, PatchHalfDay}

ChangeLine(patch) == [kind |-> "change", patch |-> patch]

StatsLine(more) == [kind |-> "stats", moreChanges |-> more]

EmptyLine == [kind |-> "empty"]

\* stdout of one 'gerrit query': a line per change, the stats line, and what
\* follows the last newline
Stdout(patches, more) ==
    [i \in 1..Len(patches) |-> ChangeLine(patches[i])]
        \o <<StatsLine(more), EmptyLine>>

\* a slice that is one line too short
ParseLinesShort(split) == [i \in 1..Max(0, Len(split) - 3) |-> split[i].patch]

\* result.split('\n')[:-2], each line through json.loads
ParseLines(split) == [i \in 1..(Len(split) - 2) |-> split[i].patch]

\* json.loads(result.split('\n')[-2])['moreChanges']
ParseMoreChanges(split) == split[Len(split) - 1].moreChanges

----------------------------------------------------------------------------
(* The cache store *)

\* os.listdir('cache')
ListDir(c) == DOMAIN c

\* json.dump into the file, json.load out of it: the text of the file is the
\* list of the objects' texts
JsonDump(d) == [text |-> d]

JsonLoad(f) == f.text

\* the file system after put_json_data_in_cache(q, d)
put_json_data_in_cache(c, q, d) ==
    LET file == _get_file_from_query(q)
    IN [f \in DOMAIN c \cup {file} |-> IF f = file THEN JsonDump(d) ELSE c[f]]

\* the value of get_json_data_from_cache(q): <<>> for None
get_json_data_from_cache(c, q) ==
    LET file == _get_file_from_query(q)
    IN IF file \in ListDir(c) THEN JsonLoad(c[file]) ELSE <<>>

----------------------------------------------------------------------------
(* The main sequence, one invocation after another on one cache directory *)

NoArgs == [project |-> <<>>, owner |-> <<>>, newer_than |-> {}]

ChartCalls ==
    << "time_to_merge_vs_number_of_patches", "loc_correlation",
       "author_patches", "author_reviews", "author_emails",
       "author_filed_bugs", "author_resolved_bugs",
       "author_drafted_blueprints", "author_implemented_blueprints",
       "author_histogram" >>

Init ==
    /\ cacheDir = FALSE
    /\ cache = << >>
    /\ writer = << >>
    /\ tz \in TzOffsets
    /\ runs = 0
    /\ pc = "idle"
    /\ args = NoArgs
    /\ query = <<>>
    /\ hit = FALSE
    /\ data = <<>>
    /\ fdata = <<>>
    /\ start = 0
    /\ nPages = 0
    /\ served = <<>>
    /\ points = <<>>
    /\ charts = <<>>
    /\ exitCode = -1
    /\ lookups = 0
    /\ writes = 0
    /\ out = <<>>

\* the script is started: parse_args and the construction of the query
Invoke ==
    /\ pc \in {"idle", "done", "exited"}
    /\ runs < MaxRuns
    /\ \E a \in Invocations :
         /\ args' = a
         /\ query' = BuildQuery(a)
    /\ runs' = runs + 1
    /\ pc' = "lookup"
    /\ hit' = FALSE
    /\ data' = <<>>
    /\ fdata' = <<>>
    /\ start' = 0
    /\ nPages' = 0
    /\ served' = <<>>
    /\ points' = <<>>
    /\ charts' = <<>>
    /\ exitCode' = -1
    /\ lookups' = 0
    /\ writes' = 0
    /\ UNCHANGED <<cacheDir, cache, writer, tz, out>>

\* put_json_data_in_cache called whether or not the lookup found the data
CacheLookupThenPut ==
    /\ pc = "lookup"
    /\ cacheDir' = TRUE
    /\ hit' = (_get_file_from_query(query) \in ListDir(cache))
    /\ data' = get_json_data_from_cache(cache, query)
    /\ lookups' = lookups + 1
    /\ pc' = IF data' = <<>> THEN "fetch" ELSE "put"
    /\ UNCHANGED <<cache, writer, tz, runs, args, query, fdata, start, nPages, served,
                   points, charts, exitCode, writes, out>>

\* the fetch made whether or not the lookup found the data
CacheLookupAlwaysFetch ==
    /\ pc = "lookup"
    /\ cacheDir' = TRUE
    /\ hit' = (_get_file_from_query(query) \in ListDir(cache))
    /\ data' = get_json_data_from_cache(cache, query)
    /\ lookups' = lookups + 1
    /\ pc' = "fetch"
    /\ UNCHANGED <<cache, writer, tz, runs, args, query, fdata, start, nPages, served,
                   points, charts, exitCode, writes, out>>

\* data = get_json_data_from_cache(query); if not data: ...
CacheLookup ==
    /\ pc = "lookup"
    /\ cacheDir' = TRUE
    /\ hit' = (_get_file_from_query(query) \in ListDir(cache))
    /\ data' = get_json_data_from_cache(cache, query)
    /\ lookups' = lookups + 1
    /\ pc' = IF data' = <<>> THEN "fetch" ELSE "derive"
    /\ UNCHANGED <<cache, writer, tz, runs, args, query, fdata, start, nPages, served,
                   points, charts, exitCode, writes, out>>

\* one iteration of the loop of get_json_data_from_query on a page without
\* transport error; the last iteration sorts and returns into data
FetchPage(pool, limit) ==
    /\ pc = "fetch"
    /\ \E k \in 1..MaxPages, more \in BOOLEAN,
          patches \in SeqsUpTo(pool, limit - Len(fdata)) :
         LET split == Stdout(patches, more)
             lines == ParseLines(split)
             acc == fdata \o lines
         IN /\ nPages' = IF served = <<>> THEN k ELSE nPages
            /\ Len(served) < nPages'
            /\ (Len(served) + 1 = nPages') => ~more
            /\ served' = Append(served, [patches |-> patches, more |-> more,
                                         error |-> FALSE])
            /\ fdata' = acc
            /\ IF acc = <<>>
               THEN /\ exitCode' = 1
                    /\ pc' = "exited"
                    /\ UNCHANGED <<start, data>>
               ELSE /\ start' = start + Len(lines)
                    /\ exitCode' = exitCode
                    /\ IF ParseMoreChanges(split)
                       THEN pc' = "fetch" /\ data' = data
                       ELSE pc' = "put" /\ data' = SortedByCreatedOn(acc)
    /\ UNCHANGED <<cacheDir, cache, writer, tz, runs, args, query, hit, points, charts,
                   lookups, writes, out>>

\* an iteration on which exec_cmd returns something on stderr
FetchError ==
    /\ pc = "fetch"
    /\ \E k \in 1..MaxPages :
         /\ nPages' = IF served = <<>> THEN k ELSE nPages
         /\ Len(served) < nPages'
    /\ served' = Append(served, [patches |-> <<>>, more |-> FALSE,
                                 error |-> TRUE])
    /\ exitCode' = 1
    /\ pc' = "exited"
    /\ UNCHANGED <<cacheDir, cache, writer, tz, runs, args, query, hit, data, fdata,
                   start, points, charts, lookups, writes, out>>

\* put_json_data_in_cache(query, data)
PutCache ==
    /\ pc = "put"
    /\ cache' = put_json_data_in_cache(cache, query, data)
    /\ writer' = [f \in DOMAIN writer \cup {_get_file_from_query(query)} |->
                     IF f = _get_file_from_query(query) THEN query
                     ELSE writer[f]]
    /\ writes' = writes + 1
    /\ pc' = "derive"
    /\ UNCHANGED <<cacheDir, tz, runs, args, query, hit, data, fdata, start,
                   nPages, served, points, charts, exitCode, lookups, out>>

\* the derivation without the check for an empty result
DerivePointsUnchecked ==
    /\ pc = "derive"
    /\ points' = get_points_from_data(data, tz)
    /\ pc' = "charts"
    /\ UNCHANGED <<cacheDir, cache, writer, tz, runs, args, query, hit, data, fdata,
                   start, nPages, served, charts, exitCode, lookups, writes, out>>

\* points = get_points_from_data(data); if not points: sys.exit(1)
DerivePoints ==
    /\ pc = "derive"
    /\ points' = get_points_from_data(data, tz)
    /\ IF points' = <<>>
       THEN exitCode' = 1 /\ pc' = "exited"
       ELSE exitCode' = exitCode /\ pc' = "charts"
    /\ UNCHANGED <<cacheDir, cache, writer, tz, runs, args, query, hit, data, fdata,
                   start, nPages, served, charts, lookups, writes, out>>

\* the calculate_* calls and plt.show()
ShowCharts ==
    /\ pc = "charts"
    /\ charts' = IF args.newer_than # {} THEN ChartCalls
                 ELSE <<"time_to_merge_figure">> \o ChartCalls
    /\ exitCode' = 0
    /\ pc' = "done"
    /\ UNCHANGED <<cacheDir, cache, writer, tz, runs, args, query, hit, data, fdata,
                   start, nPages, served, points, lookups, writes, out>>

Next ==
    \/ Invoke
    \/ CacheLookup
    \/ FetchPage(RunPatches, MaxRecords)
    \/ FetchError
    \/ PutCache
    \/ DerivePoints
    \/ ShowCharts

Spec == Init /\ [][Next]_vars

----------------------------------------------------------------------------
(* get_json_data_from_query on its own: one call, on a cache miss *)

InitFetch ==
    /\ cacheDir = TRUE
    /\ cache = << >>
    /\ writer = << >>
    /\ tz = 0
    /\ runs = 1
    /\ pc = "fetch"
    /\ args \in Invocations
    /\ query = BuildQuery(args)
    /\ hit = FALSE
    /\ data = <<>>
    /\ fdata = <<>>
    /\ start = 0
    /\ nPages = 0
    /\ served = <<>>
    /\ points = <<>>
    /\ charts = <<>>
    /\ exitCode = -1
    /\ lookups = 1
    /\ writes = 0
    /\ out = <<>>

NextFetch ==
    \/ FetchPage(MainPatches, MaxFetched)
    \/ FetchError

SpecFetch == InitFetch /\ [][NextFetch]_vars

----------------------------------------------------------------------------
(* Properties of the paginated fetch *)

RECURSIVE ServedPatches(_)
\* the records of the pages served, in the order served
ServedPatches(pages) ==
    IF pages = <<>> THEN <<>>
    ELSE Head(pages).patches \o ServedPatches(Tail(pages))

\* the loop of get_json_data_from_query has been left, by return or by exit
FetchOver == served # <<>> /\ pc # "fetch"

\* the call has returned its list
FetchReturned == FetchOver /\ pc # "exited" /\ ~hit

\* every page served so far is as the pagination property supposes: no
\* transport error, and moreChanges false on the last of the nPages pages only
PagesAsSupposed ==
    \A i \in 1..Len(served) :
        /\ ~served[i].error
        /\ served[i].more <=> (i < nPages)

\* the fetch visited each of the nPages pages and returned as many records as
\* the pages hold together
VisitedAllAndReturnedSum ==
    /\ FetchReturned
    /\ Len(served) = nPages
    /\ start = Len(ServedPatches(served))
    /\ Len(data) = Len(ServedPatches(served))

\* C1 as stated: whenever the service's pages are free of transport errors and
\* only the last of its k pages has moreChanges=false, the fetch visits
\* exactly k pages, stops, and returns as many records as the pages hold
C1_AnyPagesVisitedAndSummed ==
    (FetchOver /\ PagesAsSupposed) => VisitedAllAndReturnedSum

\* C1 amended: the same, provided the first page holds at least one record
C1_PaginationTerminates ==
    (FetchOver /\ PagesAsSupposed /\ served[1].patches # <<>>)
        => VisitedAllAndReturnedSum

\* two pages of two records each were visited and four records returned
C1_Witness ==
    /\ FetchReturned
    /\ PagesAsSupposed
    /\ nPages = 2
    /\ Len(served[1].patches) = 2
    /\ Len(served[2].patches) = 2
    /\ Len(data) = 4

IsSortedByCreatedOn(d) ==
    \A i, j \in 1..Len(d) : i < j => d[i].createdOn <= d[j].createdOn

\* C3: a fetch that returns, returns exactly the records of the pages it was
\* served, in ascending order of createdOn
C3_ReturnsAccumulatedSorted ==
    FetchReturned =>
        /\ SameBag(data, ServedPatches(served))
        /\ IsSortedByCreatedOn(data)

\* two pages of two records each, served out of order, were returned sorted
C3_Witness ==
    /\ FetchReturned
    /\ Len(served) = 2
    /\ Len(served[1].patches) = 2
    /\ Len(served[2].patches) = 2
    /\ ~IsSortedByCreatedOn(ServedPatches(served))
    /\ IsSortedByCreatedOn(data)

----------------------------------------------------------------------------
(* Properties of the main sequence *)

TransportError == \E i \in 1..Len(served) : served[i].error

FirstPageEmpty ==
    served # <<>> /\ ~served[1].error /\ served[1].patches = <<>>

\* get_points_from_data has returned in this run
Derived ==
    \/ pc \in {"charts", "done"}
    \/ pc = "exited" /\ ~TransportError /\ ~FirstPageEmpty

Fatal == pc = "exited" /\ exitCode = 1 /\ charts = <<>>

\* C2: a transport error on any page, an empty first page, or an empty list
\* of points ends the run at once with exit status 1, no chart function
\* having been called
C2_BatchDefectIsFatal ==
    /\ TransportError => Fatal /\ points = <<>> /\ writes = 0
    /\ FirstPageEmpty => Fatal /\ points = <<>> /\ writes = 0
    /\ (Derived /\ points = <<>>) => Fatal
    /\ exitCode = 1 => Fatal

\* a fetch succeeded and was cached, and the derivation gave no point
C2_Witness ==
    /\ Fatal
    /\ writes = 1
    /\ data # <<>>
    /\ points = <<>>
    /\ ~TransportError
    /\ ~FirstPageEmpty

\* the fetch of this run ran to its return
FetchSucceeded ==
    /\ served # <<>>
    /\ ~served[Len(served)].error
    /\ ~served[Len(served)].more
    /\ pc \in {"put", "derive", "charts", "done", "exited"}
    /\ data = SortedByCreatedOn(ServedPatches(served))
    /\ data # <<>>

\* C4: a run looks the cache up exactly once, before any request to the
\* review service, and writes it at most once; after a hit there is neither
\* a request nor a write; the write follows a miss and a successful fetch
C4_CacheAccessOrder ==
    /\ lookups <= 1
    /\ writes <= 1
    /\ pc \in {"fetch", "put", "derive", "charts", "done", "exited"}
         => lookups = 1
    /\ served # <<>> => lookups = 1 /\ ~hit
    /\ hit => served = <<>> /\ writes = 0
    /\ writes = 1 => ~hit /\ FetchSucceeded /\ pc # "put"
    /\ pc = "put" => writes = 0 /\ FetchSucceeded

\* a run missed, fetched two pages, wrote the cache once and finished
C4_Witness ==
    /\ pc = "done"
    /\ ~hit
    /\ lookups = 1
    /\ writes = 1
    /\ Len(served) = 2

\* C5: a file of the cache, once written, stays and keeps its content
C5_CacheWriteOnce ==
    [][\A f \in DOMAIN cache : f \in DOMAIN cache' /\ cache'[f] = cache[f]]_vars

\* a later run of the same storage key has finished on the cached data
C5_Witness ==
    /\ runs >= 2
    /\ pc = "done"
    /\ hit
    /\ _get_file_from_query(query) \in DOMAIN cache

\* the smallest creation date of a batch
MinDate(d, offset) ==
    CHOOSE m \in {Date(d[i].createdOn, offset) : i \in 1..Len(d)} :
        \A i \in 1..Len(d) : m <= Date(d[i].createdOn, offset)

\* the records of a batch that give a point, in order
AcceptedRecords(d, offset) == SelectSeq(d, LAMBDA patch : Accepted(patch, offset))

\* C10: whether the batch came from the cache or from the service, the date
\* of each point is the number of days from the smallest creation date of
\* the whole batch to the creation date of the point's record, and is >= 0
C10_DateOffsetFromBatchMinimum ==
    pc \in {"charts", "done"} =>
        LET acc == AcceptedRecords(data, tz)
        IN /\ Len(points) = Len(acc)
           /\ \A i \in 1..Len(points) :
                /\ points[i].date =
                     Date(acc[i].createdOn, tz) - MinDate(data, tz)
                /\ points[i].date >= 0

\* a batch read from the cache whose earliest record gave no point, the
\* other points being dated from that record nevertheless
C10_Witness ==
    /\ pc = "done"
    /\ hit
    /\ Len(points) < Len(data)
    /\ ~Accepted(data[1], tz)
    /\ points[1].date > 0

----------------------------------------------------------------------------
(* The normalisers and get_points_from_data on their own: a batch holding  *)
(* one arbitrary record among records of the pool                          *)

SubmApprovals ==
    { Approval("SUBM", "1", DaySecs, "carol"),
      Approval("SUBM", "1", 3 * DaySecs, "carol"),
      Approval("Code-Review", "2", 2 * DaySecs, "dave") }

AnyPatchSets ==
    LET sizes == {-4, 3} \X {-1, 2}
    IN {PatchSet(sz[1], sz[2]) : sz \in sizes}
         \cup {PatchSetWith(sz[1], sz[2], apps) :
                 sz \in sizes, apps \in SeqsUpTo(SubmApprovals, MaxApprovals)}

AnyPatches ==
    LET created == {DaySecs + HalfDay, 2 * DaySecs}
        updated == {DaySecs, 2 * DaySecs, 3 * DaySecs}
    IN {Owned(c, u, ps, "erin") :
            c \in created, u \in updated, ps \in AnyPatchSets}
         \cup {Anonymous(c, u, ps) :
            c \in created, u \in updated, ps \in AnyPatchSets}

\* batches as the main sequence holds them: in ascending order of createdOn
Batches(any, pool) ==
    {SortedByCreatedOn(<<p>> \o rest) :
        p \in any, rest \in SeqsUpTo(pool, MaxBatch - 1)}

\* the values the main sequence leaves alone until the fetch
FreshRun ==
    /\ hit = FALSE
    /\ fdata = <<>>
    /\ start = 0
    /\ nPages = 0
    /\ served = <<>>
    /\ points = <<>>
    /\ charts = <<>>
    /\ exitCode = -1
    /\ writes = 0
    /\ out = <<>>

InitPoints ==
    /\ cacheDir = TRUE
    /\ cache = << >>
    /\ writer = << >>
    /\ tz \in TzOffsets
    /\ runs = 1
    /\ pc = "normalize"
    /\ args = NoArgs
    /\ query = <<>>
    /\ lookups = 1
    /\ FreshRun
    /\ data \in Batches(AnyPatches, MainPatches)

\* the three normalisers, called on every record of the batch
NormalizePatches ==
    /\ pc = "normalize"
    /\ out' = [submitted |-> [i \in 1..Len(data) |->
                                 get_submission_timestamp(data[i])],
               loc |-> [i \in 1..Len(data) |-> get_loc(data[i])],
               author |-> [i \in 1..Len(data) |-> get_patch_author(data[i])]]
    /\ pc' = "derive"
    /\ UNCHANGED <<cacheDir, cache, writer, tz, runs, args, query, hit, data, fdata,
                   start, nPages, served, points, charts, exitCode, lookups,
                   writes>>

NextPoints ==
    \/ NormalizePatches
    \/ DerivePoints

SpecPoints == InitPoints /\ [][NextPoints]_vars

----------------------------------------------------------------------------
(* Properties of the normalisers and of the derivation *)

\* get_points_from_data has returned, in SpecPoints
PointsDerived == out # <<>> /\ pc \in {"charts", "exited"}

\* the grants of the SUBM approvals of a record
SubmGrants(patch) ==
    IF HasApprovals(patch)
    THEN {a.grantedOn : a \in {b \in Range(patch.currentPatchSet.approvals) :
                                   b.type = "SUBM"}}
    ELSE {}

\* days from the creation date to the resolved submission date
DayDifference(patch, offset) ==
    Date(get_submission_timestamp(patch), offset) - Date(patch.createdOn, offset)

\* C6: the submission timestamp is the grantedOn of a SUBM approval where the
\* record has one, and lastUpdated where it has no approvals or no SUBM among
\* them; a record resolved by lastUpdated gives its point like any other
C6_SubmissionOrLastUpdated ==
    out # <<>> =>
        /\ \A i \in 1..Len(data) :
             IF SubmGrants(data[i]) # {}
             THEN out.submitted[i] \in SubmGrants(data[i])
             ELSE out.submitted[i] = data[i].lastUpdated
        /\ PointsDerived =>
             Len(points) = Cardinality({i \in 1..Len(data) :
                 /\ HasOwner(data[i])
                 /\ Date(out.submitted[i], tz) - Date(data[i].createdOn, tz) > 0})

\* a record with approvals but no SUBM among them was resolved by lastUpdated
\* and gave a point
C6_Witness ==
    /\ PointsDerived
    /\ Len(data) = 1
    /\ HasApprovals(data[1])
    /\ data[1].currentPatchSet.approvals # <<>>
    /\ SubmGrants(data[1]) = {}
    /\ out.submitted[1] = data[1].lastUpdated
    /\ Len(points) = 1

\* C7: every point has days_to_merge > 0 and loc = max(0, insertions +
\* deletions) >= 0, and the points are those of the records whose day
\* difference is positive: a record with a zero or negative difference
\* gives none
C7_PointsPositive ==
    PointsDerived =>
        LET kept == SelectSeq(data, LAMBDA patch :
                        DayDifference(patch, tz) > 0 /\ HasOwner(patch))
        IN /\ Len(points) = Len(kept)
           /\ \A i \in 1..Len(points) :
                /\ points[i].days_to_merge > 0
                /\ points[i].days_to_merge = DayDifference(kept[i], tz)
                /\ points[i].loc >= 0
                /\ points[i].loc =
                     Max(0, kept[i].currentPatchSet.sizeInsertions
                            + kept[i].currentPatchSet.sizeDeletions)

\* of two owned records one with a non-positive day difference was dropped,
\* and the other, of negative size, gave a point of loc 0
C7_Witness ==
    /\ PointsDerived
    /\ Len(data) = 2
    /\ \A i \in 1..2 : HasOwner(data[i])
    /\ \E i \in 1..2 : DayDifference(data[i], tz) <= 0
    /\ \E i \in 1..2 :
         data[i].currentPatchSet.sizeInsertions
           + data[i].currentPatchSet.sizeDeletions < 0
    /\ Len(points) = 1
    /\ points[1].loc = 0

\* C8 as stated: every record whose day difference is positive gives a point,
\* with or without an owner username
C8_OwnerlessRecordRetained ==
    PointsDerived =>
        Len(points) = Cardinality({i \in 1..Len(data) :
                                      DayDifference(data[i], tz) > 0})

----------------------------------------------------------------------------
(* get_cores_from_data *)

\* time.time() when the function is called: later than every change
Now == 10 * DaySecs

\* the test of the inner loop: Workflow, or Code-Review of -2 or 2
Qualifies(approval) ==
    \/ approval.type = "Workflow"
    \/ approval.type = "Code-Review" /\ approval.value \in {"-2", "2"}

\* the two updates of cores[username] for one qualifying approval; a missing
\* key and a stored 0 are both false to 'not ....get(...)'
Widen(cores, approval) ==
    LET date == approval.grantedOn
        username == approval.by.username
        known == username \in DOMAIN cores
        newMin == IF ~known \/ cores[username].min = 0
                     \/ date < cores[username].min
                  THEN date ELSE cores[username].min
        newMax == IF ~known \/ cores[username].max = 0
                     \/ date > cores[username].max
                  THEN date ELSE cores[username].max
    IN [u \in DOMAIN cores \cup {username} |->
           IF u = username THEN [min |-> newMin, max |-> newMax] ELSE cores[u]]

RECURSIVE ScanApprovals(_, _)
\* for approval in approvals: ...
ScanApprovals(cores, approvals) ==
    IF approvals = <<>> THEN cores
    ELSE ScanApprovals(
             IF Qualifies(Head(approvals)) THEN Widen(cores, Head(approvals))
             ELSE cores,
             Tail(approvals))

\* the timestamps of range(start_date, end_date, 86400)
DayRange(start_date, end_date) ==
    IF end_date <= start_date THEN <<>>
    ELSE [k \in 1..(((end_date - start_date - 1) \div DaySecs) + 1) |->
             start_date + (k - 1) * DaySecs]

\* the second loop: for each timestamp the number of cores whose window
\* holds it
CountCores(cores, start_date, end_date) ==
    LET stamps == DayRange(start_date, end_date)
    IN [k \in 1..Len(stamps) |->
           Cardinality({u \in DOMAIN cores :
               cores[u].min <= stamps[k] /\ stamps[k] <= cores[u].max})]

CoreApprovals ==
    { Approval("Workflow", "1", DaySecs, "carol"),
      Approval("Code-Review", "2", 3 * DaySecs, "carol"),
      Approval("Code-Review", "-2", 2 * DaySecs, "dave"),
      Approval("Code-Review", "1", 4 * DaySecs, "dave"),
      Approval("SUBM", "1", 4 * DaySecs, "carol") }

ReviewedPatches ==
    LET created == {DaySecs, 2 * DaySecs, 3 * DaySecs + HalfDay}
    IN {Owned(c, 4 * DaySecs, PatchSet(1, 1), "erin") : c \in created}
         \cup {Owned(c, 4 * DaySecs, PatchSetWith(1, 1, apps), "erin") :
                 c \in created, apps \in SeqsUpTo(CoreApprovals, MaxApprovals)}

InitCores ==
    /\ cacheDir = TRUE
    /\ cache = << >>
    /\ writer = << >>
    /\ tz = 0
    /\ runs = 1
    /\ pc = "scan"
    /\ args = NoArgs
    /\ query = <<>>
    /\ lookups = 1
    /\ hit = FALSE
    /\ fdata = <<>>
    /\ start = 0
    /\ nPages = 0
    /\ served = <<>>
    /\ points = <<>>
    /\ charts = <<>>
    /\ exitCode = -1
    /\ writes = 0
    /\ data \in Batches(ReviewedPatches, MainPatches)
    /\ out = [i |-> 1, cores |-> << >>, start_date |-> Now, end_date |-> 0,
              counts |-> <<>>]

\* one iteration of 'for patch in data'
ScanPatch ==
    /\ pc = "scan"
    /\ out.i <= Len(data)
    /\ LET patch == data[out.i]
       IN out' = [out EXCEPT
             !.i = @ + 1,
             !.start_date = IF patch.createdOn < @ THEN patch.createdOn ELSE @,
             !.end_date = IF patch.createdOn > @ THEN patch.createdOn ELSE @,
             !.cores = IF HasApprovals(patch)
                       THEN ScanApprovals(@, patch.currentPatchSet.approvals)
                       ELSE @]
    /\ UNCHANGED <<cacheDir, cache, writer, tz, runs, pc, args, query, hit, data, fdata,
                   start, nPages, served, points, charts, exitCode, lookups,
                   writes>>

\* the loop over range(start_date, end_date, 86400), and the return
CountDays ==
    /\ pc = "scan"
    /\ out.i > Len(data)
    /\ out' = [out EXCEPT
                 !.counts = CountCores(out.cores, out.start_date, out.end_date)]
    /\ pc' = "returned"
    /\ UNCHANGED <<cacheDir, cache, writer, tz, runs, args, query, hit, data, fdata,
                   start, nPages, served, points, charts, exitCode, lookups,
                   writes>>

NextCores ==
    \/ ScanPatch
    \/ CountDays

SpecCores == InitCores /\ [][NextCores]_vars

----------------------------------------------------------------------------
(* Properties of get_cores_from_data *)

\* the grants of the qualifying approvals of a user over a batch
QualifyingGrants(d, u) ==
    UNION {{a.grantedOn : a \in {b \in Range(d[i].currentPatchSet.approvals) :
                                    Qualifies(b) /\ b.by.username = u}} :
           i \in {j \in 1..Len(d) : HasApprovals(d[j])}}

Approvers(d) ==
    {u \in {"carol", "dave", "erin"} : QualifyingGrants(d, u) # {}}

SetMin(S) == CHOOSE m \in S : \A x \in S : m <= x

SetMax(S) == CHOOSE m \in S : \A x \in S : m >= x

CreatedOns(d) == {d[i].createdOn : i \in 1..Len(d)}

\* the day buckets from the smallest to the largest createdOn, both included
InclusiveDays(d) ==
    LET first == SetMin(CreatedOns(d))
        last == SetMax(CreatedOns(d))
    IN [k \in 1..(((last - first) \div DaySecs) + 1) |->
           first + (k - 1) * DaySecs]

\* C9 as stated: the series has one bucket for each whole day from the
\* smallest createdOn to the largest included, and an approver adds 1 to a
\* bucket if the bucket's day lies within the approver's [minT, maxT], else 0
C9_CoreWindowPerDay ==
    pc = "returned" =>
        LET days == InclusiveDays(data)
        IN /\ Len(out.counts) = Len(days)
           /\ \A k \in 1..Len(days) :
                out.counts[k] = Cardinality({u \in Approvers(data) :
                    /\ SetMin(QualifyingGrants(data, u)) <= days[k]
                    /\ days[k] <= SetMax(QualifyingGrants(data, u))})

----------------------------------------------------------------------------
(* Properties of the cache across queries *)

\* the lookup of this run found a file
CacheHit == hit /\ pc \in {"derive", "charts", "done", "exited"}

\* C11 as stated: the data a run takes from the cache under its query was
\* stored by a run of that same query string, so that two different query
\* strings never come to the same file of the cache
C11_CacheHitOfSameQuery ==
    CacheHit =>
        /\ _get_file_from_query(query) \in DOMAIN writer
        /\ writer[_get_file_from_query(query)] = query
        /\ data = JsonLoad(cache[_get_file_from_query(query)])

====
